---- MODULE Spec2Model ----
(***************************************************************************)
(* Model of shared/XrUtility/XrActionContext.h: xr::ActionSet,             *)
(* xr::ActionContext and the two protocol functions                        *)
(* xr::AttachActionsToSession and xr::SyncActions.                         *)
(*                                                                         *)
(* The OpenXR runtime is the environment: every runtime call may succeed   *)
(* or be rejected, and CHECK_XRCMD turns a rejection into an exception     *)
(* that leaves the enclosing function at that point.                       *)
(***************************************************************************)
EXTENDS Integers, Sequences, FiniteSets, Bags, TLC

(* ---------------------------- bounds ---------------------------------- *)
NumContexts == 2      \* ActionContext objects of the application
MaxSets == 2          \* ActionSets created in total
MaxActions == 2       \* actions created in total
MaxBindings == 2      \* pending (action, binding) pairs in total
MaxObjects == 3       \* sets, actions and pending pairs together
MaxPathList == 2      \* length of CreateAction's subactionPaths argument
MaxSuggest == 2       \* length of SuggestInteractionProfileBindings' argument

(* ------------------- paths: xr::StringToPath -------------------------- *)
XR_NULL_PATH == 0

\* The strings the application passes; the last of each group is malformed.
SubactionPathStrings == {"/user/hand/left", "/user/hand/right", "user hand"}
ProfileStrings == {"/interaction_profiles/a", "/interaction_profiles/b", "profile?"}
BindingStrings == {"/input/select/click", "input select"}

\* The runtime's interning table: one non-null atom per well-formed string.
PathTable ==
    ("/user/hand/right" :> 1) @@ ("/user/hand/left" :> 2) @@
    ("/interaction_profiles/a" :> 3) @@ ("/interaction_profiles/b" :> 4) @@
    ("/input/select/click" :> 5)

\* xrStringToPath succeeds exactly on the well-formed strings.
PathResolves(s) == s \in DOMAIN PathTable

StringToPath(s) == PathTable[s]

AllResolve(strs) == \A i \in 1..Len(strs) : PathResolves(strs[i])

\* xr::StringsToPaths: element-wise StringToPath, order and repeats kept.
StringsToPaths(strs) == [i \in 1..Len(strs) |-> StringToPath(strs[i])]

(* --------------------------- state ------------------------------------ *)
VARIABLES
    contexts,   \* contexts[c]: the ActionContext c (m_actionSets, m_actionBindings)
    op,         \* the operation that ran last: name, the arguments it read, whether it returned
    calls,      \* the runtime calls that operation issued, in order
    suggested,  \* history: per context, the bag of (profile, action, binding) declared
    passed,     \* history: per action-set handle, the paths given to xrCreateAction
    attached,   \* history: action-set handles of the attach calls the runtime accepted
    remembered  \* history: one earlier SyncActions call (contexts, argument, records)

vars == <<contexts, op, calls, suggested, passed, attached, remembered>>

Contexts == 1..NumContexts

(* --------------------------- helpers ---------------------------------- *)
RECURSIVE Flatten(_)
Flatten(ss) == IF ss = <<>> THEN <<>> ELSE Head(ss) \o Flatten(Tail(ss))

Range(s) == {s[i] : i \in 1..Len(s)}

\* Sequences over S of length at most n.
SeqUpTo(S, n) == UNION {[1..k -> S] : k \in 0..n}

\* The bag of the elements of a sequence.
BagOfSeq(s) == [e \in Range(s) |-> Cardinality({i \in 1..Len(s) : s[i] = e})]

\* Every ActionSet of every context, and every action handle.
AllActionSets(cs) == Flatten([c \in Contexts |-> cs[c].m_actionSets])
AllActions(cs) ==
    LET sets == AllActionSets(cs)
    IN  Flatten([i \in 1..Len(sets) |-> sets[i].m_actions])

\* Pending (action, binding) pairs of one table, and over all contexts.
RECURSIVE NumPairs(_, _)
NumPairs(table, profiles) ==
    IF profiles = {} THEN 0
    ELSE LET p == CHOOSE x \in profiles : TRUE
         IN  Len(table[p]) + NumPairs(table, profiles \ {p})

NumBindings(cs) ==
    LET n[c \in 0..NumContexts] ==
            IF c = 0 THEN 0
            ELSE n[c - 1] + NumPairs(cs[c].m_actionBindings, DOMAIN cs[c].m_actionBindings)
    IN  n[NumContexts]

\* What the application has created so far.
NumObjects(cs) == Len(AllActionSets(cs)) + Len(AllActions(cs)) + NumBindings(cs)

\* The actionContexts argument: a collection of distinct live contexts, in any order.
ContextLists ==
    {l \in SeqUpTo(Contexts, NumContexts) : \A i, j \in 1..Len(l) : i # j => l[i] # l[j]}

\* An empty std::unordered_map: no profile has an entry.
NoBindings == [p \in {} |-> <<>>]

NoSync == [any |-> FALSE, touched |-> FALSE, actionContexts |-> <<>>,
           contexts |-> <<>>, records |-> <<>>]

Call(fn, arg, ok) == [fn |-> fn, arg |-> arg, ok |-> ok]

Op(name, args, ok) == [name |-> name, args |-> args, ok |-> ok]

(* ------------------------- construction ------------------------------- *)
\* ActionContext(instance): no sets, no bindings.
Init ==
    /\ contexts = [c \in Contexts |-> [m_actionSets |-> <<>>, m_actionBindings |-> NoBindings]]
    /\ op = Op("ActionContext", <<>>, TRUE)
    /\ calls = <<>>
    /\ suggested = [c \in Contexts |-> EmptyBag]
    /\ passed = [paths |-> <<>>, again |-> FALSE]
    /\ attached = {}
    /\ remembered = NoSync

(* --------------------------- ActionSet -------------------------------- *)
\* xrCreateActionSet / xrCreateAction hand out a handle no live object has.
NewActionSetHandle(cs) == Len(AllActionSets(cs)) + 1
NewActionHandle(cs) == Len(AllActions(cs)) + 1

\* ActionSet::ActionSet after a successful xrCreateActionSet.
ActionSet(handle) ==
    [m_actionSet |-> handle, m_actions |-> <<>>, m_active |-> TRUE,
     m_declaredSubactionPaths |-> <<>>]

\* ActionContext::CreateActionSet: the constructor throws when the runtime
\* rejects the set, and then nothing is emplaced.
CreateActionSet(c, ok) ==
    /\ LET h == NewActionSetHandle(contexts)
       IN  /\ contexts' =
                IF ok
                THEN [contexts EXCEPT ![c].m_actionSets = Append(@, ActionSet(h))]
                ELSE contexts
           /\ calls' = <<Call("xrCreateActionSet", h, ok)>>
    /\ op' = Op("CreateActionSet", <<>>, ok)
    /\ UNCHANGED suggested

\* Mutant of SetInsert: a container that does not look for the path first.
SetInsertAlways(paths, x) ==
    LET k == Cardinality({i \in 1..Len(paths) : paths[i] < x})
    IN  SubSeq(paths, 1, k) \o <<x>> \o SubSeq(paths, k + 1, Len(paths))

\* std::set<XrPath>::insert: the set is kept as its ascending sequence of
\* distinct paths; inserting a path it holds changes nothing.
SetInsert(paths, x) ==
    IF \E i \in 1..Len(paths) : paths[i] = x
    THEN paths
    ELSE LET k == Cardinality({i \in 1..Len(paths) : paths[i] < x})
         IN  SubSeq(paths, 1, k) \o <<x>> \o SubSeq(paths, k + 1, Len(paths))

\* Mutant of InsertDeclared: the set is assigned the paths of the action
\* being created instead of being added to.
InsertDeclaredAfresh(declared, xrPaths) ==
    LET held == Range(xrPaths)
        count(x) == Cardinality({y \in held : y < x})
    IN  [k \in 1..Cardinality(held) |-> CHOOSE x \in held : count(x) = k - 1]

\* The loop at lines 50-52: insert every resolved path.
RECURSIVE InsertDeclared(_, _)
InsertDeclared(declared, xrPaths) ==
    IF xrPaths = <<>> THEN declared
    ELSE InsertDeclared(SetInsert(declared, Head(xrPaths)), Tail(xrPaths))

\* ActionSet::CreateAction on set s of context c.
CreateAction(c, s, subactionPaths, ok) ==
    /\ s \in 1..Len(contexts[c].m_actionSets)
    /\ IF ~AllResolve(subactionPaths)
       THEN \* StringsToPaths throws before anything is touched
            /\ ok = FALSE
            /\ contexts' = contexts
            /\ calls' = <<>>
       ELSE LET xrPaths == StringsToPaths(subactionPaths)
                h == NewActionHandle(contexts)
                as == contexts[c].m_actionSets[s]
                declared == InsertDeclared(as.m_declaredSubactionPaths, xrPaths)
            IN  /\ contexts' =
                     [contexts EXCEPT ![c].m_actionSets[s] =
                        [as EXCEPT !.m_declaredSubactionPaths = declared,
                                   !.m_actions = IF ok THEN Append(@, h) ELSE @]]
                /\ calls' = <<Call("xrCreateAction",
                                   [actionSet |-> as.m_actionSet, subactionPaths |-> xrPaths],
                                   ok)>>
    /\ op' = Op("CreateAction", <<c, s>>, ok)
    /\ UNCHANGED suggested

\* Mutant of SetActive: the flag is kept once for the context, so every set
\* of the context follows.
SetActiveAll(c, s, active) ==
    /\ s \in 1..Len(contexts[c].m_actionSets)
    /\ contexts' =
         [contexts EXCEPT ![c].m_actionSets =
            [j \in 1..Len(@) |-> [@[j] EXCEPT !.m_active = active]]]
    /\ op' = Op("SetActive", <<c, s, active>>, TRUE)
    /\ calls' = <<>>
    /\ UNCHANGED suggested

\* ActionSet::SetActive.
SetActive(c, s, active) ==
    /\ s \in 1..Len(contexts[c].m_actionSets)
    /\ contexts' = [contexts EXCEPT ![c].m_actionSets[s].m_active = active]
    /\ op' = Op("SetActive", <<c, s, active>>, TRUE)
    /\ calls' = <<>>
    /\ UNCHANGED suggested

(* -------------------------- ActionContext ----------------------------- *)
\* Mutant of EmplaceBack: a pair the profile already holds is not added again.
EmplaceBackUnique(table, profilePath, binding) ==
    IF profilePath \in DOMAIN table
    THEN IF \E i \in 1..Len(table[profilePath]) : table[profilePath][i] = binding
         THEN table
         ELSE [table EXCEPT ![profilePath] = Append(@, binding)]
    ELSE table @@ (profilePath :> <<binding>>)

\* Mutant of EmplaceBack: the pair is put in front of the pairs held.
EmplaceFront(table, profilePath, binding) ==
    IF profilePath \in DOMAIN table
    THEN [table EXCEPT ![profilePath] = <<binding>> \o @]
    ELSE table @@ (profilePath :> <<binding>>)

\* m_actionBindings[profilePath].emplace_back(...): operator[] creates the
\* entry when the profile has none.
EmplaceBack(table, profilePath, binding) ==
    IF profilePath \in DOMAIN table
    THEN [table EXCEPT ![profilePath] = Append(@, binding)]
    ELSE table @@ (profilePath :> <<binding>>)

\* Mutant of EmplaceAll: the profile's entry is looked up once, before the
\* loop, which creates it even when there is no pair to add.
EmplaceAllTouching(table, profilePath, bindings) ==
    LET touched == IF profilePath \in DOMAIN table THEN table
                   ELSE table @@ (profilePath :> <<>>)
    IN  [touched EXCEPT ![profilePath] = @ \o bindings]

\* The loop at lines 104-106 (and 127-130): one emplace_back per pair, in order.
RECURSIVE EmplaceAll(_, _, _)
EmplaceAll(table, profilePath, bindings) ==
    IF bindings = <<>> THEN table
    ELSE EmplaceAll(EmplaceBack(table, profilePath, Head(bindings)),
                    profilePath, Tail(bindings))

\* What the application may pass as suggestedBindings: pairs of an action it
\* created and a binding string.
SuggestedBindingArgs ==
    SeqUpTo([action : Range(AllActions(contexts)), binding : BindingStrings], MaxSuggest)

\* ActionContext::SuggestInteractionProfileBindings.
SuggestInteractionProfileBindings(c, interactionProfile, suggestedBindings) ==
    /\ IF ~PathResolves(interactionProfile)
       THEN \* StringToPath throws
            /\ contexts' = contexts
            /\ suggested' = suggested
            /\ op' = Op("SuggestInteractionProfileBindings", <<c, interactionProfile>>, FALSE)
       ELSE /\ contexts' =
                 [contexts EXCEPT ![c].m_actionBindings =
                    EmplaceAll(@, StringToPath(interactionProfile), suggestedBindings)]
            /\ suggested' =
                 [suggested EXCEPT ![c] = @ (+) BagOfSeq(
                    [i \in 1..Len(suggestedBindings) |->
                        [profile |-> interactionProfile,
                         action |-> suggestedBindings[i].action,
                         binding |-> suggestedBindings[i].binding]])]
            /\ op' = Op("SuggestInteractionProfileBindings",
                       <<c, interactionProfile, suggestedBindings>>, TRUE)
    /\ calls' = <<>>

(* ---------------------- AttachActionsToSession ------------------------ *)
\* XrActionSuggestedBinding{actionPath, StringToPath(binding)} for each pair.
ResolveBindings(stringBindings) ==
    [i \in 1..Len(stringBindings) |->
        [action |-> stringBindings[i].action,
         binding |-> StringToPath(stringBindings[i].binding)]]

\* Lines 126-131 for one context: every profile of its table, every pair of
\* the profile, appended to allBindings[profilePath].
RECURSIVE CollectContext(_, _, _)
CollectContext(allBindings, table, profiles) ==
    IF profiles = {} THEN allBindings
    ELSE LET p == CHOOSE x \in profiles : TRUE
         IN  CollectContext(EmplaceAll(allBindings, p, ResolveBindings(table[p])),
                            table, profiles \ {p})

\* Lines 124-132: the contexts in the order of the argument.
RECURSIVE CollectBindings(_, _, _)
CollectBindings(allBindings, cs, actionContexts) ==
    IF actionContexts = <<>> THEN allBindings
    ELSE LET table == cs[Head(actionContexts)].m_actionBindings
         IN  CollectBindings(CollectContext(allBindings, table, DOMAIN table),
                             cs, Tail(actionContexts))

\* Every pending binding string of the passed contexts resolves.
BindingsResolve(cs, actionContexts) ==
    \A i \in 1..Len(actionContexts) :
        LET table == cs[actionContexts[i]].m_actionBindings
        IN  \A p \in DOMAIN table : \A k \in 1..Len(table[p]) :
                PathResolves(table[p][k].binding)

\* Mutant of ActionSetHandles: the passed contexts are visited in the order
\* of their creation, not of the argument.
ActionSetHandlesByIndex(cs, actionContexts) ==
    Flatten([c \in Contexts |->
        IF c \in Range(actionContexts)
        THEN [j \in 1..Len(cs[c].m_actionSets) |-> cs[c].m_actionSets[j].m_actionSet]
        ELSE <<>>])

\* Lines 142-147: the handle of every set of every passed context.
ActionSetHandles(cs, actionContexts) ==
    Flatten([i \in 1..Len(actionContexts) |->
        LET sets == cs[actionContexts[i]].m_actionSets
        IN  [j \in 1..Len(sets) |-> sets[j].m_actionSet]])

\* The orders in which an unordered_map with these keys may be iterated.
IterationOrders(keys) ==
    {o \in [1..Cardinality(keys) -> keys] : \A i, j \in DOMAIN o : i # j => o[i] # o[j]}

\* Mutant of SuggestCalls: a rejected call is noted and the loop goes on.
SuggestCallsPastFailure(allBindings, order, nOk) ==
    [i \in 1..Len(order) |->
        Call("xrSuggestInteractionProfileBindings",
             [interactionProfile |-> order[i], suggestedBindings |-> allBindings[order[i]]],
             i # nOk + 1)]

\* Lines 134-140: one xrSuggestInteractionProfileBindings per entry of
\* allBindings, in iteration order; the first nOk calls succeed and, if any
\* entry is left, the next call is rejected and CHECK_XRCMD throws.
SuggestCalls(allBindings, order, nOk) ==
    [i \in 1..(IF nOk < Len(order) THEN nOk + 1 ELSE nOk) |->
        Call("xrSuggestInteractionProfileBindings",
             [interactionProfile |-> order[i], suggestedBindings |-> allBindings[order[i]]],
             i <= nOk)]


\* Mutant of AttachCalls: no test for an empty sequence.
AttachCallsAlways(actionSetHandles, attachOk) ==
    <<Call("xrAttachSessionActionSets", actionSetHandles, attachOk)>>

\* Mutant of AttachCalls: the call is skipped once the session has action
\* sets attached.
AttachCallsOnce(actionSetHandles, attachOk) ==
    IF actionSetHandles = <<>> \/ attached # {} THEN <<>>
    ELSE <<Call("xrAttachSessionActionSets", actionSetHandles, attachOk)>>

\* Lines 149-154: the attach call, skipped when there is no handle.
AttachCalls(actionSetHandles, attachOk) ==
    IF actionSetHandles = <<>> THEN <<>>
    ELSE <<Call("xrAttachSessionActionSets", actionSetHandles, attachOk)>>

\* Mutant of AttachOrders: the suggestion loop runs over each context's own
\* table instead of the merged one.
AttachOrdersPerContext(cs, actionContexts) ==
    IF BindingsResolve(cs, actionContexts)
    THEN LET own(k) == IterationOrders(DOMAIN cs[actionContexts[k]].m_actionBindings)
             places == 1..Len(actionContexts)
         IN  {Flatten(split) :
                split \in {f \in [places -> UNION {own(k) : k \in places}] :
                              \A k \in places : f[k] \in own(k)}}
    ELSE {<<>>}

\* The iteration orders of allBindings (none to choose when the merge throws).
AttachOrders(cs, actionContexts) ==
    IF BindingsResolve(cs, actionContexts)
    THEN IterationOrders(DOMAIN CollectBindings(NoBindings, cs, actionContexts))
    ELSE {<<>>}

\* Mutant of AttachActionsToSession: each context's strings are resolved
\* only when its turn comes, after the contexts before it have been
\* suggested to the runtime.
AttachActionsToSessionLazy(actionContexts, order, nOk, attachOk) ==
    /\ IF ~BindingsResolve(contexts, actionContexts)
       THEN LET bad == CHOOSE k \in 1..Len(actionContexts) :
                          /\ ~BindingsResolve(contexts, <<actionContexts[k]>>)
                          /\ \A j \in 1..(k - 1) :
                                BindingsResolve(contexts, <<actionContexts[j]>>)
                merged == CollectBindings(NoBindings, contexts,
                                          SubSeq(actionContexts, 1, bad - 1))
                some == CHOOSE o \in IterationOrders(DOMAIN merged) : TRUE
            IN  /\ attachOk = FALSE
                /\ calls' = SuggestCalls(merged, some, Len(some))
                /\ op' = Op("AttachActionsToSession", actionContexts, FALSE)
       ELSE LET allBindings == CollectBindings(NoBindings, contexts, actionContexts)
                suggestCalls == SuggestCalls(allBindings, order, nOk)
                attachCalls == AttachCalls(ActionSetHandles(contexts, actionContexts), attachOk)
            IN  IF \E i \in 1..Len(suggestCalls) : ~suggestCalls[i].ok
                THEN /\ attachOk = FALSE
                     /\ calls' = suggestCalls
                     /\ op' = Op("AttachActionsToSession", actionContexts, FALSE)
                ELSE /\ attachCalls = <<>> => attachOk
                     /\ calls' = suggestCalls \o attachCalls
                     /\ op' = Op("AttachActionsToSession", actionContexts, attachOk)
    /\ UNCHANGED <<contexts, suggested>>

\* Mutant of AttachActionsToSession: the pending bindings are moved out of
\* the contexts into the merged table.
AttachActionsToSessionConsuming(actionContexts, order, nOk, attachOk) ==
    /\ IF ~BindingsResolve(contexts, actionContexts)
       THEN /\ attachOk = FALSE
            /\ calls' = <<>>
            /\ op' = Op("AttachActionsToSession", actionContexts, FALSE)
            /\ contexts' = contexts
       ELSE LET allBindings == CollectBindings(NoBindings, contexts, actionContexts)
                suggestCalls == SuggestCalls(allBindings, order, nOk)
                attachCalls == AttachCalls(ActionSetHandles(contexts, actionContexts), attachOk)
            IN  /\ contexts' =
                     [c \in Contexts |->
                        IF c \in Range(actionContexts)
                        THEN [contexts[c] EXCEPT !.m_actionBindings = NoBindings]
                        ELSE contexts[c]]
                /\ IF \E i \in 1..Len(suggestCalls) : ~suggestCalls[i].ok
                   THEN /\ attachOk = FALSE
                        /\ calls' = suggestCalls
                        /\ op' = Op("AttachActionsToSession", actionContexts, FALSE)
                   ELSE /\ attachCalls = <<>> => attachOk
                        /\ calls' = suggestCalls \o attachCalls
                        /\ op' = Op("AttachActionsToSession", actionContexts, attachOk)
    /\ UNCHANGED suggested

\* xr::AttachActionsToSession(instance, session, actionContexts).
AttachActionsToSession(actionContexts, order, nOk, attachOk) ==
    /\ IF ~BindingsResolve(contexts, actionContexts)
       THEN \* StringToPath throws during the merge
            /\ attachOk = FALSE
            /\ calls' = <<>>
            /\ op' = Op("AttachActionsToSession", actionContexts, FALSE)
       ELSE LET allBindings == CollectBindings(NoBindings, contexts, actionContexts)
                suggestCalls == SuggestCalls(allBindings, order, nOk)
                attachCalls == AttachCalls(ActionSetHandles(contexts, actionContexts), attachOk)
            IN  IF \E i \in 1..Len(suggestCalls) : ~suggestCalls[i].ok
                THEN \* a suggestion call was rejected
                     /\ attachOk = FALSE
                     /\ calls' = suggestCalls
                     /\ op' = Op("AttachActionsToSession", actionContexts, FALSE)
                ELSE /\ attachCalls = <<>> => attachOk
                     /\ calls' = suggestCalls \o attachCalls
                     /\ op' = Op("AttachActionsToSession", actionContexts, attachOk)
    /\ UNCHANGED <<contexts, suggested>>

(* ---------------------------- SyncActions ----------------------------- *)
XrActiveActionSet(actionSet, subactionPath) ==
    [actionSet |-> actionSet, subactionPath |-> subactionPath]

\* Mutant of ActiveRecords: the active flag is not looked at.
ActiveRecordsIgnoringActive(actionSet) ==
    IF actionSet.m_declaredSubactionPaths = <<>>
    THEN <<XrActiveActionSet(actionSet.m_actionSet, XR_NULL_PATH)>>
    ELSE [i \in 1..Len(actionSet.m_declaredSubactionPaths) |->
            XrActiveActionSet(actionSet.m_actionSet, actionSet.m_declaredSubactionPaths[i])]

\* Mutant of ActiveRecords: the null-path record is emitted for every active
\* set, before the records of its declared paths.
ActiveRecordsWithWildcard(actionSet) ==
    IF ~actionSet.m_active THEN <<>>
    ELSE <<XrActiveActionSet(actionSet.m_actionSet, XR_NULL_PATH)>> \o
         [i \in 1..Len(actionSet.m_declaredSubactionPaths) |->
            XrActiveActionSet(actionSet.m_actionSet, actionSet.m_declaredSubactionPaths[i])]

\* Lines 162-171 for one ActionSet.
ActiveRecords(actionSet) ==
    IF ~actionSet.m_active THEN <<>>
    ELSE IF actionSet.m_declaredSubactionPaths = <<>>
    THEN <<XrActiveActionSet(actionSet.m_actionSet, XR_NULL_PATH)>>
    ELSE [i \in 1..Len(actionSet.m_declaredSubactionPaths) |->
            XrActiveActionSet(actionSet.m_actionSet, actionSet.m_declaredSubactionPaths[i])]

\* Mutant of ActiveActionSets: the vector outlives the call and is reused
\* when the previous operation was a sync that submitted records.
ActiveActionSetsStale(cs, actionContexts) ==
    IF op.name = "SyncActions" /\ calls # <<>>
    THEN calls[1].arg
    ELSE Flatten([i \in 1..Len(actionContexts) |->
            LET sets == cs[actionContexts[i]].m_actionSets
            IN  Flatten([j \in 1..Len(sets) |->
                    IF ~sets[j].m_active THEN <<>>
                    ELSE IF sets[j].m_declaredSubactionPaths = <<>>
                    THEN <<XrActiveActionSet(sets[j].m_actionSet, XR_NULL_PATH)>>
                    ELSE [n \in 1..Len(sets[j].m_declaredSubactionPaths) |->
                            XrActiveActionSet(sets[j].m_actionSet,
                                              sets[j].m_declaredSubactionPaths[n])]])])

\* Mutant of ActiveActionSets: sets that no accepted attach call carried
\* are left out.
ActiveActionSetsAttachedOnly(cs, actionContexts) ==
    Flatten([i \in 1..Len(actionContexts) |->
        LET sets == cs[actionContexts[i]].m_actionSets
        IN  Flatten([j \in 1..Len(sets) |->
                IF ~sets[j].m_active \/ sets[j].m_actionSet \notin attached THEN <<>>
                ELSE IF sets[j].m_declaredSubactionPaths = <<>>
                THEN <<XrActiveActionSet(sets[j].m_actionSet, XR_NULL_PATH)>>
                ELSE [n \in 1..Len(sets[j].m_declaredSubactionPaths) |->
                        XrActiveActionSet(sets[j].m_actionSet,
                                          sets[j].m_declaredSubactionPaths[n])]])])

\* Lines 158-173: activeActionSets after both loops.
ActiveActionSets(cs, actionContexts) ==
    Flatten([i \in 1..Len(actionContexts) |->
        LET sets == cs[actionContexts[i]].m_actionSets
        IN  Flatten([j \in 1..Len(sets) |-> ActiveRecords(sets[j])])])

\* Mutant of SyncCalls: no test for an empty sequence.
SyncCallsAlways(activeActionSets, ok) ==
    <<Call("xrSyncActions", activeActionSets, ok)>>

\* Lines 175-180: the sync call, skipped when there is no record.
SyncCalls(activeActionSets, ok) ==
    IF activeActionSets = <<>> THEN <<>>
    ELSE <<Call("xrSyncActions", activeActionSets, ok)>>

\* xr::SyncActions(session, actionContexts).
SyncActions(actionContexts, ok) ==
    /\ LET syncCalls == SyncCalls(ActiveActionSets(contexts, actionContexts), ok)
       IN  /\ syncCalls = <<>> => ok
           /\ calls' = syncCalls
    /\ op' = Op("SyncActions", actionContexts, ok)
    /\ UNCHANGED <<contexts, suggested>>

(* ----------------------- the application's steps ---------------------- *)
\* One operation of an application that creates at most maxObjects objects,
\* holds at most maxBindings pending pairs and passes one of pathLists to
\* CreateAction.
DoCreateActionSet(maxObjects) ==
    /\ Len(AllActionSets(contexts)) < MaxSets
    /\ NumObjects(contexts) < maxObjects
    /\ \E c \in Contexts, ok \in BOOLEAN : CreateActionSet(c, ok)

DoCreateAction(maxObjects, pathLists) ==
    /\ Len(AllActions(contexts)) < MaxActions
    /\ NumObjects(contexts) < maxObjects
    /\ \E c \in Contexts :
        \E s \in 1..Len(contexts[c].m_actionSets), ok \in BOOLEAN :
            \E subactionPaths \in pathLists :
                CreateAction(c, s, subactionPaths, ok)

DoSetActive ==
    \E c \in Contexts :
        \E s \in 1..Len(contexts[c].m_actionSets), active \in BOOLEAN :
            SetActive(c, s, active)

DoSuggest(maxObjects, maxBindings) ==
    LET room == IF maxObjects - NumObjects(contexts) < maxBindings - NumBindings(contexts)
                THEN maxObjects - NumObjects(contexts)
                ELSE maxBindings - NumBindings(contexts)
    IN  \E c \in Contexts, interactionProfile \in ProfileStrings :
            \E suggestedBindings \in {b \in SuggestedBindingArgs : Len(b) <= room} :
                SuggestInteractionProfileBindings(c, interactionProfile, suggestedBindings)

DoAttach ==
    \E actionContexts \in ContextLists :
        \E order \in AttachOrders(contexts, actionContexts) :
            \E nOk \in 0..Len(order), attachOk \in BOOLEAN :
                AttachActionsToSession(actionContexts, order, nOk, attachOk)

DoSync == \E actionContexts \in ContextLists, ok \in BOOLEAN : SyncActions(actionContexts, ok)

(* ------------------------ history variables --------------------------- *)
\* A history variable is written under the specification that needs it and
\* left alone under the others; none of them is read by an operation.

\* Per action set, the paths of every xrCreateAction call, accepted or not;
\* and whether the call of this step gave a path that an earlier one had given.
RecordPaths ==
    passed' =
        IF op'.name = "CreateActionSet" /\ op'.ok
        THEN [paths |-> Append(passed.paths, {}), again |-> FALSE]
        ELSE IF op'.name = "CreateAction" /\ calls' # <<>>
        THEN LET h == calls'[1].arg.actionSet
                 given == Range(calls'[1].arg.subactionPaths)
             IN  [paths |-> [passed.paths EXCEPT ![h] = @ \cup given],
                  again |-> passed.paths[h] \cap given # {}]
        ELSE [passed EXCEPT !.again = FALSE]

\* The session keeps the handles of every attach call the runtime accepted.
RecordAttach ==
    attached' =
        IF /\ op'.name = "AttachActionsToSession"
           /\ op'.ok
           /\ calls' # <<>>
           /\ calls'[Len(calls')].fn = "xrAttachSessionActionSets"
        THEN attached \cup Range(calls'[Len(calls')].arg)
        ELSE attached

\* One SyncActions call is kept for comparison with a later one, with
\* whether the contexts were written to since.
RecordSync ==
    remembered' \in
        IF ~remembered.any
        THEN IF op'.name = "SyncActions"
             THEN {remembered,
                   [any |-> TRUE, touched |-> FALSE, actionContexts |-> op'.args,
                    contexts |-> contexts', records |-> calls']}
             ELSE {remembered}
        ELSE {[remembered EXCEPT !.touched = @ \/ contexts' # contexts]}

PathHistory == RecordPaths /\ UNCHANGED <<attached, remembered>>
SessionHistory == RecordAttach /\ UNCHANGED <<passed, remembered>>
SyncHistory == RecordSync /\ UNCHANGED <<passed, attached>>
NoHistory == UNCHANGED <<passed, attached, remembered>>

(* ------------------------- specifications ----------------------------- *)
AllPathLists == SeqUpTo(SubactionPathStrings, MaxPathList)

\* Every operation, everything mixed, small.
Next ==
    \/ DoCreateActionSet(MaxObjects) /\ PathHistory
    \/ DoCreateAction(MaxObjects, AllPathLists) /\ PathHistory
    \/ DoSetActive /\ PathHistory
    \/ DoSuggest(MaxObjects, MaxBindings) /\ PathHistory
    \/ DoAttach /\ PathHistory
    \/ DoSync /\ PathHistory

Spec == Init /\ [][Next]_vars

\* Deeper on bindings and the session: one object more, actions without
\* sub-action paths.
AttachNext ==
    \/ DoCreateActionSet(MaxObjects + 1) /\ SessionHistory
    \/ DoCreateAction(MaxObjects + 1, {<<>>}) /\ SessionHistory
    \/ DoSetActive /\ SessionHistory
    \/ DoSuggest(MaxObjects + 1, MaxBindings) /\ SessionHistory
    \/ DoAttach /\ SessionHistory
    \/ DoSync /\ SessionHistory

AttachSpec == Init /\ [][AttachNext]_vars

\* The path lists of the two-context scenario (section 8 of the design): an
\* action for both hands, an action without sub-action paths.
ScenarioPathLists == {<<"/user/hand/left", "/user/hand/right">>, <<>>}

\* Deeper on sets and activation: one object more, no pending bindings, the
\* scenario's path lists.
ScenarioNext ==
    \/ DoCreateActionSet(MaxObjects + 1) /\ NoHistory
    \/ DoCreateAction(MaxObjects + 1, ScenarioPathLists) /\ NoHistory
    \/ DoSetActive /\ NoHistory
    \/ DoSuggest(MaxObjects + 1, 0) /\ NoHistory
    \/ DoAttach /\ NoHistory
    \/ DoSync /\ NoHistory

ScenarioSpec == Init /\ [][ScenarioNext]_vars

\* Deeper on everything that grows: one object more, pending bindings and
\* the scenario's path lists together.
GrowthNext ==
    \/ DoCreateActionSet(MaxObjects + 1) /\ NoHistory
    \/ DoCreateAction(MaxObjects + 1, ScenarioPathLists) /\ NoHistory
    \/ DoSetActive /\ NoHistory
    \/ DoSuggest(MaxObjects + 1, MaxBindings) /\ NoHistory
    \/ DoAttach /\ NoHistory
    \/ DoSync /\ NoHistory

GrowthSpec == Init /\ [][GrowthNext]_vars

\* Sync calls compared across histories: one object fewer, no pending bindings.
HistoryNext ==
    \/ DoCreateActionSet(MaxObjects - 1) /\ SyncHistory
    \/ DoCreateAction(MaxObjects - 1, ScenarioPathLists) /\ SyncHistory
    \/ DoSetActive /\ SyncHistory
    \/ DoSuggest(MaxObjects - 1, 0) /\ SyncHistory
    \/ DoAttach /\ SyncHistory
    \/ DoSync /\ SyncHistory

HistorySpec == Init /\ [][HistoryNext]_vars

(* ============================== claims ================================ *)
IsSync == op.name = "SyncActions"
IsAttach == op.name = "AttachActionsToSession"

\* The ActionSets owned by the contexts of a collection.
OwnedSets(actionContexts) ==
    UNION {Range(contexts[actionContexts[k]].m_actionSets) : k \in 1..Len(actionContexts)}

\* The records a sync submitted: those of its xrSyncActions call, if any.
RecordsOf(syncCalls) == IF syncCalls = <<>> THEN <<>> ELSE syncCalls[1].arg

\* Where the records of one action set stand in a sequence of records.
RecordsAt(records, handle) == {k \in 1..Len(records) : records[k].actionSet = handle}

\* C1: a sync submits, for each ActionSet of a passed context, no record if
\* the set is inactive, exactly one record with the null path if it is active
\* and has declared no sub-action path, and otherwise exactly one record per
\* declared path and none with the null path.
C1_RecordsPerActionSet ==
    IsSync =>
        \A S \in OwnedSets(op.args) :
            LET records == RecordsOf(calls)
                at == RecordsAt(records, S.m_actionSet)
                declared == Range(S.m_declaredSubactionPaths)
            IN  /\ ~S.m_active => at = {}
                /\ S.m_active /\ declared = {} =>
                       /\ Cardinality(at) = 1
                       /\ \A k \in at : records[k].subactionPath = XR_NULL_PATH
                /\ S.m_active /\ declared # {} =>
                       /\ Cardinality(at) = Cardinality(declared)
                       /\ {records[k].subactionPath : k \in at} = declared
                       /\ \A k \in at : records[k].subactionPath # XR_NULL_PATH

\* A sync over an active set with two declared paths and an inactive set
\* that has declared paths too.
C1_Witness ==
    /\ IsSync
    /\ \E S, T \in OwnedSets(op.args) :
          /\ S.m_active /\ Len(S.m_declaredSubactionPaths) = 2
          /\ Cardinality(RecordsAt(RecordsOf(calls), S.m_actionSet)) = 2
          /\ ~T.m_active /\ T.m_declaredSubactionPaths # <<>>

\* C3: the declared sub-action paths of every ActionSet are exactly the
\* paths given to the CreateAction calls on it, each held once, in the one
\* order that does not depend on the order of the calls.
C3_DeclaredIsUnion ==
    \A c \in Contexts : \A j \in 1..Len(contexts[c].m_actionSets) :
        LET S == contexts[c].m_actionSets[j]
            declared == S.m_declaredSubactionPaths
        IN  /\ Range(declared) = passed.paths[S.m_actionSet]
            /\ \A a, b \in 1..Len(declared) : a < b => declared[a] < declared[b]

\* A second action was created on a set with a path that an earlier call on
\* the set had given, and the set has declared two paths.
C3_Witness ==
    /\ op.name = "CreateAction" /\ op.ok /\ passed.again
    /\ LET S == contexts[op.args[1]].m_actionSets[op.args[2]]
       IN  Len(S.m_actions) = 2 /\ Len(S.m_declaredSubactionPaths) = 2

\* C8: a sync issues no runtime call when no ActionSet of the passed
\* contexts is active, and otherwise exactly one xrSyncActions call, which
\* carries records of every active set of every passed context.
C8_SyncCallIffActive ==
    IsSync =>
        LET active == {S \in OwnedSets(op.args) : S.m_active}
        IN  /\ active = {} => calls = <<>>
            /\ active # {} =>
                   /\ Len(calls) = 1
                   /\ calls[1].fn = "xrSyncActions"
                   /\ {calls[1].arg[k].actionSet : k \in 1..Len(calls[1].arg)} =
                          {S.m_actionSet : S \in active}

\* A sync over two contexts that own sets, all of them inactive.
C8_Witness ==
    /\ IsSync /\ Len(op.args) = 2 /\ calls = <<>>
    /\ \A k \in 1..2 : contexts[op.args[k]].m_actionSets # <<>>

(* ----------------------------- attach --------------------------------- *)
SuggestFn == "xrSuggestInteractionProfileBindings"
AttachFn == "xrAttachSessionActionSets"

\* Where the calls of one runtime function stand among the calls issued.
CallsAt(fn) == {i \in 1..Len(calls) : calls[i].fn = fn}

\* The profiles for which a context of the collection holds pending pairs.
PendingProfiles(actionContexts) ==
    {p \in UNION {DOMAIN contexts[actionContexts[k]].m_actionBindings :
                    k \in 1..Len(actionContexts)} :
        \E k \in 1..Len(actionContexts) :
            LET table == contexts[actionContexts[k]].m_actionBindings
            IN  p \in DOMAIN table /\ table[p] # <<>>}

\* No step before the attach call failed: every pending binding string of
\* the passed contexts is well formed and no suggestion call was rejected.
NoEarlierFailure ==
    /\ \A k \in 1..Len(op.args) :
          LET table == contexts[op.args[k]].m_actionBindings
          IN  \A p \in DOMAIN table : \A n \in 1..Len(table[p]) :
                  table[p][n].binding \in DOMAIN PathTable
    /\ \A i \in CallsAt(SuggestFn) : calls[i].ok

\* How often the contexts of a collection declared (action, binding) for a
\* profile through SuggestInteractionProfileBindings, the binding resolved.
RECURSIVE CopiesOf(_, _)
CopiesOf(bag, elems) ==
    IF elems = {} THEN 0
    ELSE LET e == CHOOSE x \in elems : TRUE
         IN  bag[e] + CopiesOf(bag, elems \ {e})

DeclaredTimes(actionContexts, profilePath, record) ==
    LET Match(e) == /\ PathTable[e.profile] = profilePath
                    /\ e.action = record.action
                    /\ e.binding \in DOMAIN PathTable
                    /\ PathTable[e.binding] = record.binding
        n[k \in 0..Len(actionContexts)] ==
            IF k = 0 THEN 0
            ELSE n[k - 1] + CopiesOf(suggested[actionContexts[k]],
                                     {e \in DOMAIN suggested[actionContexts[k]] : Match(e)})
    IN  n[Len(actionContexts)]

\* The binding records an attach submitted for a profile.
SubmittedFor(profilePath) ==
    Flatten([i \in 1..Len(calls) |->
        IF calls[i].fn = SuggestFn /\ calls[i].arg.interactionProfile = profilePath
        THEN calls[i].arg.suggestedBindings
        ELSE <<>>])

SubmittedTimes(profilePath, record) ==
    LET records == SubmittedFor(profilePath)
    IN  Cardinality({n \in 1..Len(records) : records[n] = record})

BindingRecords ==
    [action : 1..MaxActions, binding : {PathTable[b] : b \in BindingStrings \cap DOMAIN PathTable}]

\* C2: the records an attach submits for a profile are, as a multiset, the
\* (action, binding) pairs declared for it in the passed contexts: each pair
\* as often as it was declared, whether in one context or in several. (A
\* profile whose call is never reached, because an earlier one was rejected,
\* has nothing submitted.)
C2_MergedBindings ==
    IsAttach =>
        \A i \in CallsAt(SuggestFn) \cup {0} :
            \A p \in IF i = 0
                      THEN IF NoEarlierFailure THEN PendingProfiles(op.args) ELSE {}
                      ELSE {calls[i].arg.interactionProfile} :
                \A r \in BindingRecords :
                    SubmittedTimes(p, r) = DeclaredTimes(op.args, p, r)

\* Two contexts declared the same pair for the same profile, and the attach
\* over both submitted it twice.
C2_Witness ==
    /\ IsAttach /\ Len(op.args) = 2
    /\ \E p \in PendingProfiles(op.args) : \E r \in BindingRecords :
          /\ SubmittedTimes(p, r) = 2
          /\ \A k \in 1..2 : DeclaredTimes(<<op.args[k]>>, p, r) = 1

\* C4: an attach that returns has issued exactly one suggestion call for
\* each profile with pending pairs in a passed context and none for any
\* other profile, all of them before the attach call; and no attach, returning
\* or not, issues two suggestion calls for one profile.
C4_OneSuggestionPerProfile ==
    IsAttach =>
        /\ \A i, j \in CallsAt(SuggestFn) :
              calls[i].arg.interactionProfile = calls[j].arg.interactionProfile => i = j
        /\ op.ok =>
              /\ {calls[i].arg.interactionProfile : i \in CallsAt(SuggestFn)} =
                     PendingProfiles(op.args)
              /\ \A i \in CallsAt(SuggestFn) : \A j \in CallsAt(AttachFn) : i < j

\* An attach over two contexts that both hold pairs for one profile
\* returned, after one suggestion call and the attach call.
C4_Witness ==
    /\ IsAttach /\ op.ok /\ Len(op.args) = 2
    /\ \E p \in PendingProfiles(op.args) :
          \A k \in 1..2 : p \in DOMAIN contexts[op.args[k]].m_actionBindings
    /\ CallsAt(SuggestFn) # {} /\ CallsAt(AttachFn) # {}

\* C5: a rejected suggestion call is the last call of its attach, which
\* does not return: no further suggestion call (for another profile or the
\* same one) and no attach call follow.
C5_SuggestionFailureIsFatal ==
    IsAttach =>
        \A i \in CallsAt(SuggestFn) :
            ~calls[i].ok => i = Len(calls) /\ ~op.ok

\* The first of two pending profiles was rejected, with sets to attach.
C5_Witness ==
    /\ IsAttach /\ Len(calls) = 1 /\ calls[1].fn = SuggestFn /\ ~calls[1].ok
    /\ Cardinality(PendingProfiles(op.args)) = 2
    /\ OwnedSets(op.args) # {}

\* C6: when the passed contexts own an ActionSet and no earlier step fails,
\* an attach issues exactly one attach call; its handle sequence holds the
\* handle of every ActionSet of every passed context, context by context in
\* the order of the collection and in creation order within a context.
C6_AttachHandles ==
    IsAttach /\ OwnedSets(op.args) # {} /\ NoEarlierFailure =>
        /\ Cardinality(CallsAt(AttachFn)) = 1
        /\ \A i \in CallsAt(AttachFn) :
              LET handles == calls[i].arg
                  sets(k) == contexts[op.args[k]].m_actionSets
                  before[k \in 1..Len(op.args) + 1] ==
                      IF k = 1 THEN 0 ELSE before[k - 1] + Len(sets(k - 1))
              IN  /\ Len(handles) = before[Len(op.args) + 1]
                  /\ \A k \in 1..Len(op.args) : \A j \in 1..Len(sets(k)) :
                        handles[before[k] + j] = sets(k)[j].m_actionSet

\* The second context was passed first, both own a set, and the call went out.
C6_Witness ==
    /\ IsAttach /\ op.args = <<2, 1>>
    /\ contexts[1].m_actionSets # <<>> /\ contexts[2].m_actionSets # <<>>
    /\ CallsAt(AttachFn) # {}

\* C7: an attach over contexts that own no ActionSet, or over no context,
\* issues no attach call.
C7_NoEmptyAttach ==
    IsAttach /\ OwnedSets(op.args) = {} => CallsAt(AttachFn) = {}

\* A context with pending pairs and no ActionSet was attached: the
\* suggestion went out and the function returned.
C7_Witness ==
    /\ IsAttach /\ op.ok /\ op.args # <<>>
    /\ OwnedSets(op.args) = {}
    /\ CallsAt(SuggestFn) # {}

(* ------------------------------ sync ---------------------------------- *)
\* C9: the records of a sync are those of any earlier sync that was made
\* over the same collection with the contexts in the same state, whatever
\* was done in between; and a set has records in a sync exactly when it is
\* active at that sync, whatever earlier syncs submitted for it.
C9_SyncReadsCurrentState ==
    IsSync =>
        /\ (/\ remembered.any
             /\ remembered.actionContexts = op.args
             /\ remembered.contexts = contexts)
               => RecordsOf(calls) = RecordsOf(remembered.records)
        /\ \A S \in OwnedSets(op.args) :
              S.m_active <=> RecordsAt(RecordsOf(calls), S.m_actionSet) # {}

\* A sync submitted records, the contexts were then written to and came
\* back to the state of that sync (a set was deactivated and reactivated),
\* and the collection was synced again.
C9_Witness ==
    /\ IsSync /\ calls # <<>>
    /\ remembered.any /\ remembered.touched
    /\ remembered.actionContexts = op.args
    /\ remembered.contexts = contexts
    /\ remembered.records # <<>>

\* The scenario: the first context owns one set (Gameplay) with one action
\* for the left and the right hand, the second context owns one set (UI)
\* with one action without sub-action paths.
Gameplay == contexts[1].m_actionSets[1]
UI == contexts[2].m_actionSets[1]

ScenarioBuilt ==
    /\ Len(contexts[1].m_actionSets) = 1 /\ Len(contexts[2].m_actionSets) = 1
    /\ Len(Gameplay.m_actions) = 1 /\ Len(UI.m_actions) = 1
    /\ Range(Gameplay.m_declaredSubactionPaths) =
           {PathTable["/user/hand/left"], PathTable["/user/hand/right"]}
    /\ UI.m_declaredSubactionPaths = <<>>

\* C10: in the scenario, attaching [A, B] submits exactly the two handles;
\* syncing [A, B] with both sets active submits exactly the three records
\* (Gameplay, left), (Gameplay, right), (UI, null path); with UI inactive it
\* submits exactly the two Gameplay records.
C10_Scenario ==
    (IsAttach \/ IsSync) /\ op.args = <<1, 2>> /\ ScenarioBuilt =>
        LET left == XrActiveActionSet(Gameplay.m_actionSet, PathTable["/user/hand/left"])
            right == XrActiveActionSet(Gameplay.m_actionSet, PathTable["/user/hand/right"])
            wildcard == XrActiveActionSet(UI.m_actionSet, XR_NULL_PATH)
            records == RecordsOf(calls)
        IN  /\ IsAttach =>
                  /\ Len(calls) = 1 /\ calls[1].fn = AttachFn
                  /\ Len(calls[1].arg) = 2
                  /\ Range(calls[1].arg) = {Gameplay.m_actionSet, UI.m_actionSet}
            /\ IsSync /\ Gameplay.m_active /\ UI.m_active =>
                  Len(records) = 3 /\ Range(records) = {left, right, wildcard}
            /\ IsSync /\ Gameplay.m_active /\ ~UI.m_active =>
                  Len(records) = 2 /\ Range(records) = {left, right}

\* The scenario synced after UI was deactivated: two records went out.
C10_Witness ==
    /\ IsSync /\ op.args = <<1, 2>> /\ ScenarioBuilt
    /\ Gameplay.m_active /\ ~UI.m_active
    /\ Len(RecordsOf(calls)) = 2

(* ----------------------------- frames --------------------------------- *)
IsSetActive == op.name = "SetActive"
IsCreateAction == op.name = "CreateAction"
IsSuggest == op.name = "SuggestInteractionProfileBindings"

\* The step that SetActive(b) on set s of context c makes, item by item.
SetActiveFrame ==
    op'.name = "SetActive" =>
        LET c == op'.args[1]
            s == op'.args[2]
            b == op'.args[3]
            before == contexts[c].m_actionSets[s]
            after == contexts'[c].m_actionSets[s]
        IN  /\ calls' = <<>> /\ op'.ok
            /\ after.m_active = b
            /\ after.m_actionSet = before.m_actionSet
            /\ after.m_actions = before.m_actions
            /\ after.m_declaredSubactionPaths = before.m_declaredSubactionPaths
            /\ \A d \in Contexts :
                  /\ Len(contexts'[d].m_actionSets) = Len(contexts[d].m_actionSets)
                  /\ \A j \in 1..Len(contexts[d].m_actionSets) :
                        <<d, j>> # <<c, s>> =>
                            contexts'[d].m_actionSets[j] = contexts[d].m_actionSets[j]
                  /\ contexts'[d].m_actionBindings = contexts[d].m_actionBindings

\* The step that a successful CreateActionSet makes: one context gets one
\* more set at the end, and that set is active.
NewSetIsActive ==
    op'.name = "CreateActionSet" /\ op'.ok =>
        \E c \in Contexts :
            LET sets == contexts'[c].m_actionSets
            IN  /\ Len(sets) = Len(contexts[c].m_actionSets) + 1
                /\ sets[Len(sets)].m_active

\* C11: SetActive(b) sets the activation flag of its set to b and changes
\* nothing else: it issues no runtime call, the set keeps its handle, its
\* actions and its declared sub-action paths, every other ActionSet and
\* every context's pending bindings stay as they were; and a newly created
\* ActionSet is active.
C11_SetActiveFrame == [][SetActiveFrame /\ NewSetIsActive]_vars

\* A set with an action and declared paths was deactivated while another
\* set is active.
C11_Witness ==
    /\ IsSetActive /\ ~op.args[3]
    /\ LET S == contexts[op.args[1]].m_actionSets[op.args[2]]
       IN  /\ ~S.m_active
           /\ S.m_actions # <<>> /\ S.m_declaredSubactionPaths # <<>>
           /\ \E T \in Range(AllActionSets(contexts)) :
                 T.m_actionSet # S.m_actionSet /\ T.m_active

\* The pending pairs of a context whose binding string is malformed.
UnresolvedPending(c) ==
    LET table == contexts[c].m_actionBindings
    IN  {<<p, n>> \in UNION {{p} \X (1..Len(table[p])) : p \in DOMAIN table} :
            table[p][n].binding \notin DOMAIN PathTable}

\* C12: when a pending binding string of a passed context does not resolve,
\* the attach does not return and has issued no runtime call at all: no
\* suggestion call for any profile, wherever the malformed string stands in
\* the collection, and no attach call.
C12_ResolutionFailureNoCall ==
    IsAttach /\ (\E k \in 1..Len(op.args) : UnresolvedPending(op.args[k]) # {}) =>
        calls = <<>> /\ ~op.ok

\* The first passed context holds a well-formed pair, the second a
\* malformed one, a set is owned, and nothing went out.
C12_Witness ==
    /\ IsAttach /\ Len(op.args) = 2 /\ calls = <<>>
    /\ contexts[op.args[1]].m_actionBindings # NoBindings
    /\ UnresolvedPending(op.args[1]) = {}
    /\ UnresolvedPending(op.args[2]) # {}
    /\ OwnedSets(op.args) # {}

\* A CreateAction step whose xrCreateAction call the runtime rejected.
CreateActionRejected == op'.name = "CreateAction" /\ calls' # <<>> /\ ~calls'[1].ok

\* C13: a CreateAction whose native call is rejected does not return and
\* leaves the ActionSet as it was: no action appended, the declared
\* sub-action paths unchanged, and so the records of a sync over any
\* collection the same as before the call.
C13_RejectedCreateActionLeavesSet ==
    [][CreateActionRejected =>
          /\ ~op'.ok
          /\ contexts' = contexts
          /\ \A l \in ContextLists :
                ActiveActionSets(contexts', l) = ActiveActionSets(contexts, l)]_vars

\* The runtime rejected the only CreateAction made on a set, and the set
\* holds no action but has declared a sub-action path.
C13_Witness ==
    /\ IsCreateAction /\ ~op.ok /\ calls # <<>>
    /\ LET S == contexts[op.args[1]].m_actionSets[op.args[2]]
       IN  /\ S.m_actions = <<>>
           /\ S.m_declaredSubactionPaths # <<>>
           /\ passed.paths[S.m_actionSet] = Range(calls[1].arg.subactionPaths)

\* What the suggestion calls among some calls carried: (profile, records).
SuggestionsIn(cs) == {cs[i].arg : i \in {i \in 1..Len(cs) : cs[i].fn = SuggestFn}}

\* A step of AttachActionsToSession or SyncActions, returning or not,
\* writes to no context.
ProtocolFrame ==
    op'.name \in {"AttachActionsToSession", "SyncActions"} =>
        \A c \in Contexts :
            /\ contexts'[c].m_actionSets = contexts[c].m_actionSets
            /\ contexts'[c].m_actionBindings = contexts[c].m_actionBindings

\* An attach that follows an attach over the same collection submits, for
\* every profile both reached, the same records; and when no suggestion
\* call is rejected in either, the same suggestion calls altogether.
AttachAgain ==
    IsAttach /\ op'.name = "AttachActionsToSession" /\ op'.args = op.args =>
        /\ \A a \in SuggestionsIn(calls), b \in SuggestionsIn(calls') :
              a.interactionProfile = b.interactionProfile => a = b
        /\ (\A i \in 1..Len(calls) : calls[i].fn = SuggestFn => calls[i].ok)
              /\ (\A i \in 1..Len(calls') : calls'[i].fn = SuggestFn => calls'[i].ok)
              => SuggestionsIn(calls') = SuggestionsIn(calls)

\* C14: AttachActionsToSession and SyncActions, whether they return or
\* throw, leave every context as it was (its sets with their flag, declared
\* paths and actions, and its pending bindings); the pending bindings are
\* not cleared by an attach, so an attach over the same contexts submits
\* them again.
C14_ProtocolLeavesContexts == [][ProtocolFrame /\ AttachAgain]_vars

\* After an attach that the runtime accepted, a further attach submitted
\* the pending bindings, which the contexts still hold, and reached its
\* attach call, which the runtime rejected.
C14_Witness ==
    /\ IsAttach /\ ~op.ok /\ attached # {}
    /\ CallsAt(SuggestFn) # {} /\ CallsAt(AttachFn) # {}
    /\ {calls[i].arg.interactionProfile : i \in CallsAt(SuggestFn)} =
           PendingProfiles(op.args)

(* ----------------------------- growth --------------------------------- *)
IsPrefix(s, t) == Len(s) <= Len(t) /\ SubSeq(t, 1, Len(s)) = s

\* The handles of a sequence of ActionSets, in order.
HandlesOf(sets) == [j \in 1..Len(sets) |-> sets[j].m_actionSet]

\* One step, whatever the operation: every collection keeps what it held,
\* in the places where it held it.
Grows ==
    \A c \in Contexts :
        LET before == contexts[c]
            after == contexts'[c]
        IN  /\ IsPrefix(HandlesOf(before.m_actionSets), HandlesOf(after.m_actionSets))
            /\ \A j \in 1..Len(before.m_actionSets) :
                  /\ IsPrefix(before.m_actionSets[j].m_actions,
                              after.m_actionSets[j].m_actions)
                  /\ Range(before.m_actionSets[j].m_declaredSubactionPaths) \subseteq
                         Range(after.m_actionSets[j].m_declaredSubactionPaths)
            /\ DOMAIN before.m_actionBindings \subseteq DOMAIN after.m_actionBindings
            /\ \A p \in DOMAIN before.m_actionBindings :
                  IsPrefix(before.m_actionBindings[p], after.m_actionBindings[p])

\* C15: over every sequence of operations the declared sub-action paths
\* and the actions of an ActionSet, the ActionSets of a context and the
\* pending list of each profile only grow: a later value holds the earlier
\* one, as a subset for the paths and as a prefix for the sequences.
C15_CollectionsOnlyGrow == [][Grows]_vars

\* Every kind of collection has grown: a set with an action and declared
\* paths, and a profile whose pending list got a second pair in a second
\* call.
C15_Witness ==
    /\ IsSuggest /\ op.ok /\ Len(op.args[3]) = 1
    /\ Len(contexts[op.args[1]].m_actionBindings[PathTable[op.args[2]]]) = 2
    /\ \E S \in Range(AllActionSets(contexts)) :
          S.m_actions # <<>> /\ S.m_declaredSubactionPaths # <<>>

\* The pending list of a profile in a table, empty when it has no entry.
PendingList(table, p) == IF p \in DOMAIN table THEN table[p] ELSE <<>>

\* The step that SuggestInteractionProfileBindings(profile, bindings) makes
\* on context c.
SuggestFrame ==
    op'.name = "SuggestInteractionProfileBindings" =>
        LET c == op'.args[1]
            before == contexts[c].m_actionBindings
            after == contexts'[c].m_actionBindings
        IN  /\ op'.ok <=> op'.args[2] \in DOMAIN PathTable
            /\ \A d \in Contexts : contexts'[d].m_actionSets = contexts[d].m_actionSets
            /\ \A d \in Contexts \ {c} :
                  contexts'[d].m_actionBindings = contexts[d].m_actionBindings
            /\ IF ~op'.ok
               THEN after = before
               ELSE LET p == PathTable[op'.args[2]]
                        bindings == op'.args[3]
                    IN  /\ PendingList(after, p) = PendingList(before, p) \o bindings
                        /\ \A q \in (DOMAIN before \cup DOMAIN after) \ {p} :
                              /\ q \in DOMAIN before /\ q \in DOMAIN after
                              /\ after[q] = before[q]

\* C16: SuggestInteractionProfileBindings(profile, bindings) appends the
\* pairs, in the order given, to the end of the pending list of the profile
\* in its context and changes nothing else: the lists of the other profiles,
\* the other contexts and every ActionSet stay; calls for one profile
\* accumulate; and when the profile string does not resolve the table is
\* unchanged.
C16_SuggestAppends == [][SuggestFrame]_vars

\* A second call for a profile added a pair behind a different pair that
\* an earlier call had given.
C16_Witness ==
    /\ IsSuggest /\ op.ok /\ Len(op.args[3]) = 1
    /\ LET list == contexts[op.args[1]].m_actionBindings[PathTable[op.args[2]]]
       IN  /\ Len(list) = 2
           /\ list[2] = op.args[3][1]
           /\ list[1] # list[2]

(* ---------------------------- the session ----------------------------- *)
\* The attach call of the operation that ran last was issued once and
\* carries the handle of every set of the passed contexts.
AttachCallIssued ==
    /\ Cardinality(CallsAt(AttachFn)) = 1
    /\ \A i \in CallsAt(AttachFn) :
          /\ Len(calls[i].arg) = Cardinality(OwnedSets(op.args))
          /\ Range(calls[i].arg) = {S.m_actionSet : S \in OwnedSets(op.args)}

\* C17: an attach over contexts that own a set, whose merge and suggestion
\* phase succeed, issues the attach call whatever the session has attached
\* before: the first time, and again on a second or later invocation, also
\* when every handle it passes was accepted by the runtime earlier. The
\* call is never skipped and the attach never fails without the runtime
\* having rejected a call.
C17_NoAttachGuard ==
    [][(IsAttach /\ OwnedSets(op.args) # {} /\ NoEarlierFailure)' =>
          /\ AttachCallIssued'
          /\ attached # {} => AttachCallIssued'
          /\ (\A i \in CallsAt(AttachFn) : calls[i].ok)' => op'.ok]_vars

\* An attach passed only handles that an earlier attach had passed and the
\* runtime had accepted; the call went out again and was rejected.
C17_Witness ==
    /\ IsAttach /\ ~op.ok
    /\ CallsAt(AttachFn) # {}
    /\ \A i \in CallsAt(AttachFn) : Range(calls[i].arg) \subseteq attached

\* The action-set handles in the records of the sync that ran last.
SyncedHandles == {RecordsOf(calls)[k].actionSet : k \in 1..Len(RecordsOf(calls))}

\* C18 as stated: every handle in a record of a sync was carried by an
\* earlier attach call that the runtime accepted.
C18_SyncedWereAttached == IsSync => SyncedHandles \subseteq attached

\* C18, amended: the handles in the records of a sync are exactly the
\* handles of the active ActionSets of the passed contexts, attached or
\* not; they were all carried by an accepted attach call when the sync
\* directly follows an attach over the same collection that returned.
C18_SyncedAreActiveOwned ==
    [][/\ (IsSync =>
              SyncedHandles = {S.m_actionSet : S \in {T \in OwnedSets(op.args) : T.m_active}})'
       /\ IsAttach /\ op.ok /\ op'.name = "SyncActions" /\ op'.args = op.args =>
              SyncedHandles' \subseteq attached']_vars

\* A sync submitted records for a set that an accepted attach call had
\* carried and for a set, created later, that none had.
C18_Witness ==
    /\ IsSync
    /\ SyncedHandles \cap attached # {}
    /\ SyncedHandles \ attached # {}

\* The profiles for which a context declared at least one pair.
DeclaredProfiles(c) == {PathTable[e.profile] : e \in DOMAIN suggested[c]}

\* C19: every suggestion call of an attach carries at least one binding
\* record. A pending table has an entry only for a profile for which a pair
\* was declared, and no entry is empty, so a profile named only in calls
\* with an empty list has no entry and gets no suggestion call.
C19_NoEmptySuggestion ==
    /\ \A c \in Contexts :
          /\ DOMAIN contexts[c].m_actionBindings = DeclaredProfiles(c)
          /\ \A p \in DOMAIN contexts[c].m_actionBindings :
                contexts[c].m_actionBindings[p] # <<>>
    /\ IsAttach =>
          \A i \in CallsAt(SuggestFn) :
              /\ calls[i].arg.suggestedBindings # <<>>
              /\ \E k \in 1..Len(op.args) :
                    calls[i].arg.interactionProfile \in DeclaredProfiles(op.args[k])

\* A context that holds pairs for one profile was given an empty list for
\* another, and has no entry for it.
C19_Witness ==
    /\ IsSuggest /\ op.ok /\ Len(op.args[3]) = 0
    /\ contexts[op.args[1]].m_actionBindings # NoBindings
    /\ PathTable[op.args[2]] \notin DOMAIN contexts[op.args[1]].m_actionBindings

====
